---- MODULE Spec2Model ----
(***************************************************************************)
(* Model of the Docling PDF processor (src/advanced_processor.py,          *)
(* src/config.py).                                                         *)
(*   Spec      : an AdvancedDoclingProcessor constructed from the default  *)
(*               option groups and a caller override, and process_pdf as   *)
(*               a sequence of steps: validate, convert, build the         *)
(*               payload, write the enabled artifacts, return.             *)
(*   SpecMain  : main(), from sys.argv to the exit status, around one      *)
(*               construction and one process_pdf call.                    *)
(*   SpecBuild : _extract_comprehensive_data on a document with tables.    *)
(* The conversion engine and the file system are the environment: the      *)
(* engine answers with a status and a document or raises, and every        *)
(* document read and every write may raise.                                *)
(***************************************************************************)
EXTENDS Integers, Sequences, FiniteSets, TLC

\* ------------------------------------------------------------------ bounds
\* number of process_pdf calls made on one processor
MaxCalls == 2
\* file sizes are taken this many bytes around each size limit
SizeSlack == 1
\* number of tables of a document
MaxTables == 3

\* --------------------------------------------------------------- strings
\* A file suffix or a configured extension is a sequence of characters.
LowerChar(c) ==
  CASE c = "P" -> "p"
    [] c = "D" -> "d"
    [] c = "F" -> "f"
    [] c = "T" -> "t"
    [] c = "X" -> "x"
    [] OTHER -> c

\* str.lower()
Lower(s) == [i \in DOMAIN s |-> LowerChar(s[i])]

Range(s) == {s[i] : i \in DOMAIN s}

ext_pdf == <<".", "p", "d", "f">>
ext_PDF == <<".", "P", "D", "F">>
ext_Pdf == <<".", "P", "d", "f">>
ext_txt == <<".", "t", "x", "t">>
ext_TXT == <<".", "T", "X", "T">>

\* ------------------------------------------------------- src/config.py
PROCESSING_CONFIG ==
  [enable_ocr |-> TRUE, ocr_languages |-> <<"en">>,
   enable_tables |-> TRUE, table_cell_matching |-> TRUE,
   generate_page_images |-> TRUE, generate_picture_images |-> TRUE,
   enable_picture_classification |-> TRUE, image_resolution_scale |-> 2,
   enable_code_enrichment |-> FALSE, enable_formula_enrichment |-> FALSE,
   num_threads |-> 4, device |-> "auto"]

OUTPUT_CONFIG ==
  [output_directory |-> "output",
   save_json |-> TRUE, save_markdown |-> TRUE, save_html |-> TRUE,
   save_text |-> TRUE, save_summary |-> TRUE,
   image_mode |-> "placeholder", json_indent |-> 2, json_ensure_ascii |-> FALSE]

FILE_CONFIG ==
  [supported_extensions |-> <<ext_pdf>>, max_file_size_mb |-> 100,
   create_backup |-> FALSE]

LOGGING_CONFIG ==
  [level |-> "INFO", format |-> "%(asctime)s - %(levelname)s - %(message)s",
   save_logs |-> TRUE, log_file |-> "processing.log"]

\* 1024 * 1024, the divisor of st_size in _validate_input_file
BytesPerMB == 1024 * 1024

\* ------------------------------------------------------ caller overrides
EmptyDict == <<>>

SaveFlags == {"save_json", "save_markdown", "save_html", "save_text", "save_summary"}

ProcessingOverrides == {EmptyDict, [enable_ocr |-> FALSE]}

OutputOverrides == {[k \in S |-> FALSE] : S \in SUBSET SaveFlags}

FileOverrides ==
  {EmptyDict,
   [max_file_size_mb |-> 1],
   [supported_extensions |-> <<ext_PDF>>],
   [supported_extensions |-> <<ext_pdf, ext_txt>>, max_file_size_mb |-> 1]}

LoggingOverrides == {EmptyDict, [level |-> "DEBUG"]}

\* the config_override argument: a dict of the groups the caller names
\* (None and {} are the empty dict: both are falsy in __init__)
OverrideOf(p, o, f, l) ==
  LET given == [processing |-> p, output |-> o, file |-> f, logging |-> l]
      named == {g \in DOMAIN given : DOMAIN given[g] # {}}
  IN  [g \in named |-> given[g]]

\* every output override with every file override, and separately every
\* processing override with every logging override
ConfigOverrides ==
  {OverrideOf(EmptyDict, o, f, EmptyDict) : o \in OutputOverrides, f \in FileOverrides}
  \cup
  {OverrideOf(p, EmptyDict, EmptyDict, l) : p \in ProcessingOverrides, l \in LoggingOverrides}

\* dict.get(key, {})
Get(d, key) == IF key \in DOMAIN d THEN d[key] ELSE EmptyDict

\* dict.update on a copy of the defaults: {**defaults}.update(upd)
Update(defaults, upd) ==
  [k \in DOMAIN defaults \cup DOMAIN upd |->
     IF k \in DOMAIN upd THEN upd[k] ELSE defaults[k]]

\* __init__, lines 44-51
MergedProcessing(ov) ==
  IF DOMAIN ov # {} THEN Update(PROCESSING_CONFIG, Get(ov, "processing"))
  ELSE PROCESSING_CONFIG

MergedOutput(ov) ==
  IF DOMAIN ov # {} THEN Update(OUTPUT_CONFIG, Get(ov, "output"))
  ELSE OUTPUT_CONFIG

MergedFile(ov) ==
  IF DOMAIN ov # {} THEN Update(FILE_CONFIG, Get(ov, "file"))
  ELSE FILE_CONFIG

\* _setup_logging reads the module-level LOGGING_CONFIG, never the override
EffectiveLogging(ov) == LOGGING_CONFIG

\* _setup_converter: the pipeline options bound into the converter handle
SetupConverter(pcfg) ==
  [do_ocr |-> pcfg.enable_ocr,
   do_table_structure |-> pcfg.enable_tables,
   \* set only when table extraction is on; else the engine's default
   do_cell_matching |-> IF pcfg.enable_tables THEN pcfg.table_cell_matching ELSE TRUE,
   generate_page_images |-> pcfg.generate_page_images,
   \* set only when page images are generated; else the engine's default
   images_scale |-> IF pcfg.generate_page_images THEN pcfg.image_resolution_scale ELSE 1,
   generate_picture_images |-> pcfg.generate_picture_images,
   do_picture_classification |-> pcfg.enable_picture_classification,
   do_code_enrichment |-> pcfg.enable_code_enrichment,
   do_formula_enrichment |-> pcfg.enable_formula_enrichment,
   num_threads |-> pcfg.num_threads,
   device |-> IF pcfg.device \in {"auto", "cpu", "cuda"} THEN pcfg.device ELSE "auto"]

\* ------------------------------------------------------------ environment
\* size limits (in MB) around which input file sizes are taken
LimitsMb == {FILE_CONFIG.max_file_size_mb} \cup
            {f.max_file_size_mb : f \in {g \in FileOverrides : "max_file_size_mb" \in DOMAIN g}}

Sizes == {m * BytesPerMB + d : m \in LimitsMb, d \in (0 - SizeSlack)..SizeSlack}

Suffixes == {ext_pdf, ext_PDF, ext_Pdf, ext_txt, ext_TXT, <<>>}

\* an input path as process_pdf sees it: Path.exists(), Path.suffix, stat().st_size
MissingFiles == {[exists |-> FALSE, suffix |-> x, st_size |-> 0] : x \in Suffixes}
ExistingFiles == {[exists |-> TRUE, suffix |-> x, st_size |-> n] : x \in Suffixes, n \in Sizes}
Files == MissingFiles \cup ExistingFiles

NoFile == [exists |-> FALSE, suffix |-> <<>>, st_size |-> 0]

\* the document handle of a conversion result: the reads of it that raise
DocReads == {"export_to_dict"}
Documents == {[failing_reads |-> r] : r \in SUBSET DocReads}
NoDocument == [failing_reads |-> {}]

Statuses == {"SUCCESS", "FAILURE", "PARTIAL_SUCCESS", "SKIPPED"}

\* what converter.convert does: raise, or return a status with a document
EngineAnswers ==
  {[raises |-> TRUE, status |-> "none", document |-> NoDocument]} \cup
  {[raises |-> FALSE, status |-> s, document |-> d] : s \in Statuses, d \in Documents}

\* the return values of process_pdf
None == [kind |-> "None"]

\* a table of a document: whether export_to_dataframe() works, and df.shape
TableShapes == {<<1, 1>>, <<2, 3>>}
Tables ==
  {[export_ok |-> TRUE, shape |-> sh] : sh \in TableShapes} \cup
  {[export_ok |-> FALSE, shape |-> <<0, 0>>]}

TableSeqs == UNION {[1..n -> Tables] : n \in 0..MaxTables}

\* the reads of the document made outside any try block
BuildReads == {"export_to_dict", "num_pages", "export_to_markdown"}

\* a document as _extract_comprehensive_data reads it
BuildDocuments ==
  {[failing_reads |-> r, tables |-> ts, num_pictures |-> np] :
     r \in SUBSET BuildReads, ts \in TableSeqs, np \in {0, 2}}

NoBuildDocument == [failing_reads |-> {}, tables |-> <<>>, num_pictures |-> 0]

\* values of mixed type in a dict: an int, a bool or a string
IntVal(n) == [int |-> n]
BoolVal(b) == [bool |-> b]
StrVal(x) == [str |-> x]

\* the options main() recognises in sys.argv
CliFlags == {"--no-ocr", "--no-tables", "--simple"}

\* a command line: whether sys.argv[1] is there, the path it names, whether
\* that path is the literal "sample_document.pdf", and the options present
Argvs ==
  {[given |-> FALSE, file |-> NoFile, placeholder |-> FALSE, flags |-> {}]} \cup
  {[given |-> TRUE, file |-> f, placeholder |-> ph, flags |-> fl] :
     f \in Files, ph \in BOOLEAN, fl \in SUBSET CliFlags}

NoArgv == [given |-> FALSE, file |-> NoFile, placeholder |-> FALSE, flags |-> {}]

\* ----------------------------------------------------------------- state
VARIABLES
  config_override,    \* the argument __init__ was called with
  processing_config,  \* self.processing_config
  output_config,      \* self.output_config
  file_config,        \* self.file_config
  logging_config,     \* the logging options _setup_logging applied
  converter,          \* self.converter: the pipeline options it was built with
  pc,                 \* position of the current process_pdf call
  calls,              \* process_pdf calls started on this processor
  pdf_file,           \* the input of the current call
  convert_invoked,    \* converter.convert was called in this call
  status,             \* result.status.name of this call, "none" before
  document,           \* result.document
  extracted_data,     \* the payload built in this call
  attempted,          \* artifacts whose write was started in this call
  written,            \* artifacts written in this call
  exc,                \* the exception raised in this call, "none" if none
  last_error,         \* the error this call logged, "none" if none
  result              \* the value the call returned

VARIABLES
  DOCLING_AVAILABLE,  \* the module-level flag set by the guarded import
  argv,               \* the command line main() was started with
  mpc,                \* position of main(); "library" when there is no main()
  exit_code,          \* the exit status of the process
  exit_reason,        \* what main() printed last before exiting
  touched             \* the files and directories the process created or opened

mainVars == <<DOCLING_AVAILABLE, argv, mpc, exit_code, exit_reason, touched>>

VARIABLES
  bpc,      \* position of _extract_comprehensive_data; "off" when it is not followed
  bdoc,     \* the document it reads
  bi,       \* the index i of "for i, table in enumerate(document.tables)"
  bstats,   \* the stats dict
  btables,  \* summary['tables']
  bresult   \* comprehensive_data as returned, None before

buildVars == <<bpc, bdoc, bi, bstats, btables, bresult>>
\* everything a step of process_pdf leaves alone besides the options
sideVars == <<mainVars, buildVars>>

cfgVars == <<config_override, processing_config, output_config, file_config,
             logging_config, converter>>
callVars == <<pc, calls, pdf_file, convert_invoked, status, document,
              extracted_data, attempted, written, exc, last_error, result>>
vars == <<cfgVars, callVars, sideVars>>

\* ------------------------------------------------- _validate_input_file
\* pdf_file.suffix.lower() in self.file_config['supported_extensions']
SuffixSupported(f, fcfg) == Lower(f.suffix) \in Range(fcfg.supported_extensions)

\* file_size_mb = st_size / (1024 * 1024), kept as an exact fraction
FileSizeMb(f) == [num |-> f.st_size, den |-> BytesPerMB]

\* mutant: st_size // (1024 * 1024), the whole megabytes only
SizeExceedsWholeMb(f, fcfg) ==
  (f.st_size \div BytesPerMB) > fcfg.max_file_size_mb

\* file_size_mb > max_file_size_mb
SizeExceeds(f, fcfg) ==
  LET q == FileSizeMb(f) IN q.num > fcfg.max_file_size_mb * q.den

\* mutant: the size check is missing
_validate_without_size(f, fcfg) ==
  IF ~f.exists THEN "NotFound"
  ELSE IF Lower(f.suffix) \notin Range(fcfg.supported_extensions) THEN "UnsupportedType"
  ELSE "OK"

\* mutant: the size check comes before the extension check
_validate_size_first(f, fcfg) ==
  IF ~f.exists THEN "NotFound"
  ELSE IF f.st_size > fcfg.max_file_size_mb * BytesPerMB THEN "TooLarge"
  ELSE IF Lower(f.suffix) \notin Range(fcfg.supported_extensions) THEN "UnsupportedType"
  ELSE "OK"

\* the error the validation logs, "OK" when it returns True
_validate_input_file(f, fcfg) ==
  IF ~f.exists THEN "NotFound"
  ELSE IF ~SuffixSupported(f, fcfg) THEN "UnsupportedType"
  ELSE IF SizeExceeds(f, fcfg) THEN "TooLarge"
  ELSE "OK"

\* ----------------------------------------------------------- process_pdf
\* mutant: only FAILURE is turned away
ProcessableUnlessFailure(s) == s # "FAILURE"

\* result.status.name != 'SUCCESS' -> return None
Processable(s) == s = "SUCCESS"

\* except Exception: the exceptions the handler of process_pdf catches
Exceptions == {"OSError", "RuntimeError"}
\* mutant: except OSError
CaughtOSErrorOnly(e) == e = "OSError"
Caught(e) == e \in Exceptions

\* _extract_comprehensive_data: the payload (the fields the claims use)
_extract_comprehensive_data(doc, f, pcfg) ==
  [kind |-> "payload",
   metadata |-> [source_file |-> f,
                 configuration |->
                   [ocr_enabled |-> pcfg.enable_ocr,
                    table_extraction |-> pcfg.enable_tables,
                    image_processing |-> pcfg.generate_picture_images,
                    picture_classification |-> pcfg.enable_picture_classification]]]

\* the condition of line 181 under which _save_all_outputs is called
WriterInvoked(ocfg) ==
  ocfg.save_json \/ ocfg.save_markdown \/ ocfg.save_html \/ ocfg.save_text

\* the artifact each flag stands for (name + suffix in the output directory)
ArtifactOf(flag) ==
  CASE flag = "save_json" -> ".json"
    [] flag = "save_markdown" -> ".md"
    [] flag = "save_html" -> ".html"
    [] flag = "save_text" -> ".txt"
    [] flag = "save_summary" -> "_report.txt"

\* an exception e raised inside the try block of process_pdf
Raise(e) ==
  /\ exc' = e
  /\ result' = None
  /\ IF Caught(e)
     THEN pc' = "done" /\ last_error' = "ProcessingFailed"
     ELSE pc' = "raised" /\ last_error' = last_error

Init ==
  /\ config_override \in ConfigOverrides
  /\ processing_config = MergedProcessing(config_override)
  /\ output_config = MergedOutput(config_override)
  /\ file_config = MergedFile(config_override)
  /\ logging_config = EffectiveLogging(config_override)
  /\ converter = SetupConverter(processing_config)
  /\ pc = "idle"
  /\ calls = 0
  /\ pdf_file = NoFile
  /\ convert_invoked = FALSE
  /\ status = "none"
  /\ document = NoDocument
  /\ extracted_data = None
  /\ attempted = {}
  /\ written = {}
  /\ exc = "none"
  /\ last_error = "none"
  /\ result = None
  /\ DOCLING_AVAILABLE = TRUE
  /\ argv = NoArgv
  /\ mpc = "library"
  /\ exit_code = 0
  /\ exit_reason = "none"
  /\ touched = {LOGGING_CONFIG.log_file, OUTPUT_CONFIG.output_directory}
  /\ bpc = "off"
  /\ bdoc = NoBuildDocument
  /\ bi = 0
  /\ bstats = EmptyDict
  /\ btables = <<>>
  /\ bresult = None

\* process_pdf, lines 157-164: a call starts and validates its input
Validate ==
  /\ pc \in {"idle", "done", "raised"}
  /\ calls < MaxCalls
  /\ \E f \in Files :
       /\ pdf_file' = f
       /\ last_error' = IF _validate_input_file(f, file_config) = "OK" THEN "none"
                        ELSE _validate_input_file(f, file_config)
       /\ pc' = IF _validate_input_file(f, file_config) = "OK" THEN "validated" ELSE "done"
  /\ calls' = calls + 1
  /\ convert_invoked' = FALSE
  /\ status' = "none"
  /\ document' = NoDocument
  /\ extracted_data' = None
  /\ attempted' = {}
  /\ written' = {}
  /\ exc' = "none"
  /\ result' = None
  /\ UNCHANGED cfgVars
  /\ UNCHANGED sideVars

\* lines 166-175: the engine converts; only SUCCESS goes on
Convert ==
  /\ pc = "validated"
  /\ convert_invoked' = TRUE
  /\ \E ans \in EngineAnswers :
       IF ans.raises
       THEN /\ Raise("RuntimeError")
            /\ UNCHANGED <<status, document>>
       ELSE /\ status' = ans.status
            /\ exc' = exc
            /\ result' = None
            /\ IF Processable(ans.status)
               THEN pc' = "converted" /\ document' = ans.document
                    /\ last_error' = last_error
               ELSE pc' = "done" /\ document' = document
                    /\ last_error' = "ConversionFailed"
  /\ UNCHANGED <<calls, pdf_file, extracted_data, attempted, written>>
  /\ UNCHANGED cfgVars
  /\ UNCHANGED sideVars

\* lines 177-183: the payload is built, then the writer is called or skipped
Build ==
  /\ pc = "converted"
  /\ IF document.failing_reads # {}
     THEN /\ Raise("RuntimeError")
          /\ UNCHANGED extracted_data
     ELSE /\ extracted_data' = _extract_comprehensive_data(document, pdf_file, processing_config)
          /\ pc' = IF WriterInvoked(output_config) THEN "save_json" ELSE "return"
          /\ UNCHANGED <<exc, last_error, result>>
  /\ UNCHANGED <<calls, pdf_file, convert_invoked, status, document, attempted, written>>
  /\ UNCHANGED cfgVars
  /\ UNCHANGED sideVars

\* mutant: a written format switches its own flag off in self.output_config
SaveFormatOnce(here, flag, next) ==
  /\ pc = here
  /\ IF output_config[flag]
     THEN /\ attempted' = attempted \cup {ArtifactOf(flag)}
          /\ \E ok \in BOOLEAN :
               IF ok
               THEN /\ written' = written \cup {ArtifactOf(flag)}
                    /\ output_config' = [output_config EXCEPT ![flag] = FALSE]
                    /\ pc' = next
                    /\ UNCHANGED <<exc, last_error, result>>
               ELSE /\ Raise("OSError")
                    /\ UNCHANGED <<written, output_config>>
     ELSE /\ pc' = next
          /\ UNCHANGED <<attempted, written, exc, last_error, result, output_config>>
  /\ UNCHANGED <<calls, pdf_file, convert_invoked, status, document, extracted_data>>
  /\ UNCHANGED <<config_override, processing_config, file_config, logging_config, converter>>
  /\ UNCHANGED sideVars

\* mutant: each write has its own handler, a failed write is logged and skipped
SaveFormatIsolated(here, flag, next) ==
  /\ pc = here
  /\ pc' = next
  /\ IF output_config[flag]
     THEN /\ attempted' = attempted \cup {ArtifactOf(flag)}
          /\ \E ok \in BOOLEAN :
               written' = IF ok THEN written \cup {ArtifactOf(flag)} ELSE written
     ELSE UNCHANGED <<attempted, written>>
  /\ UNCHANGED <<exc, last_error, result>>
  /\ UNCHANGED <<calls, pdf_file, convert_invoked, status, document, extracted_data>>
  /\ UNCHANGED cfgVars
  /\ UNCHANGED sideVars

\* one "if self.output_config[flag]:" block of _save_all_outputs: the write
\* either completes or raises; a write that raises leaves no complete
\* artifact and, there being no handler in _save_all_outputs, ends the call
SaveFormat(here, flag, next) ==
  /\ pc = here
  /\ IF output_config[flag]
     THEN /\ attempted' = attempted \cup {ArtifactOf(flag)}
          /\ \E ok \in BOOLEAN :
               IF ok
               THEN /\ written' = written \cup {ArtifactOf(flag)}
                    /\ pc' = next
                    /\ UNCHANGED <<exc, last_error, result>>
               ELSE /\ Raise("OSError")
                    /\ UNCHANGED written
     ELSE /\ pc' = next
          /\ UNCHANGED <<attempted, written, exc, last_error, result>>
  /\ UNCHANGED <<calls, pdf_file, convert_invoked, status, document, extracted_data>>
  /\ UNCHANGED cfgVars
  /\ UNCHANGED sideVars

\* _save_all_outputs, lines 290-333, in the order of the code
SaveJson == SaveFormat("save_json", "save_json", "save_markdown")
SaveMarkdown == SaveFormat("save_markdown", "save_markdown", "save_html")
SaveHtml == SaveFormat("save_html", "save_html", "save_text")
SaveText == SaveFormat("save_text", "save_text", "save_summary")
SaveSummary == SaveFormat("save_summary", "save_summary", "return")

\* lines 185-186: return extracted_data
Return ==
  /\ pc = "return"
  /\ result' = extracted_data
  /\ pc' = "done"
  /\ UNCHANGED <<calls, pdf_file, convert_invoked, status, document, extracted_data,
                 attempted, written, exc, last_error>>
  /\ UNCHANGED cfgVars
  /\ UNCHANGED sideVars

Next ==
  \/ Validate
  \/ Convert
  \/ Build
  \/ SaveJson
  \/ SaveMarkdown
  \/ SaveHtml
  \/ SaveText
  \/ SaveSummary
  \/ Return

Spec == Init /\ [][Next]_vars

\* ------------------------------------------------------------------ main
\* the keys --simple switches off, lines 413-418
SimpleKeys == {"enable_picture_classification", "enable_code_enrichment",
               "enable_formula_enrichment", "generate_picture_images"}

\* mutant: --simple assigns its dict instead of updating the one built so far
CliOverrideSimpleAssigns(flags) ==
  LET ocr == IF "--no-ocr" \in flags THEN [enable_ocr |-> FALSE] ELSE EmptyDict
      tab == IF "--no-tables" \in flags
             THEN Update(ocr, [enable_tables |-> FALSE]) ELSE ocr
      smp == IF "--simple" \in flags THEN [k \in SimpleKeys |-> FALSE] ELSE tab
  IN  [processing |-> smp, output |-> EmptyDict]

\* lines 404-418: the config_override main() builds from the options
CliOverride(flags) ==
  LET ocr == IF "--no-ocr" \in flags THEN [enable_ocr |-> FALSE] ELSE EmptyDict
      tab == IF "--no-tables" \in flags
             THEN Update(ocr, [enable_tables |-> FALSE]) ELSE ocr
      smp == IF "--simple" \in flags
             THEN Update(tab, [k \in SimpleKeys |-> FALSE]) ELSE tab
  IN  [processing |-> smp, output |-> EmptyDict]

\* "if result:" -- a payload is a non-empty dict, None is falsy
Truthy(res) == res # None

\* mutant: the failure branch prints its message without sys.exit(1)
ExitCodeAlwaysZero(res) == 0

\* lines 437-450: falling off main() exits 0, the else branch exits 1
ExitCodeOf(res) == IF Truthy(res) THEN 0 ELSE 1

Exit(code, why) ==
  /\ mpc' = "exited"
  /\ exit_code' = code
  /\ exit_reason' = why

InitMain ==
  /\ DOCLING_AVAILABLE \in BOOLEAN
  /\ argv \in Argvs
  /\ (argv.placeholder => argv.file.suffix = ext_pdf)
  /\ mpc = "main"
  /\ exit_code = 0
  /\ exit_reason = "none"
  /\ touched = {}
  /\ bpc = "off"
  /\ bdoc = NoBuildDocument
  /\ bi = 0
  /\ bstats = EmptyDict
  /\ btables = <<>>
  /\ bresult = None
  /\ config_override = EmptyDict
  /\ processing_config = EmptyDict
  /\ output_config = EmptyDict
  /\ file_config = EmptyDict
  /\ logging_config = EmptyDict
  /\ converter = EmptyDict
  /\ pc = "idle"
  /\ calls = 0
  /\ pdf_file = NoFile
  /\ convert_invoked = FALSE
  /\ status = "none"
  /\ document = NoDocument
  /\ extracted_data = None
  /\ attempted = {}
  /\ written = {}
  /\ exc = "none"
  /\ last_error = "none"
  /\ result = None

\* lines 390-428: the usage check, the options, the placeholder check
MainArgs ==
  /\ mpc = "main"
  /\ IF ~argv.given
     THEN Exit(1, "usage")
     ELSE IF argv.placeholder /\ ~argv.file.exists
          THEN Exit(1, "placeholder")
          ELSE mpc' = "construct" /\ UNCHANGED <<exit_code, exit_reason>>
  /\ UNCHANGED <<DOCLING_AVAILABLE, argv, touched>>
  /\ UNCHANGED <<cfgVars, callVars, buildVars>>

\* mutant: the availability check comes after the logging and directory setup
MainConstructChecksLate ==
  /\ mpc = "construct"
  /\ config_override' = CliOverride(argv.flags)
  /\ processing_config' = MergedProcessing(config_override')
  /\ output_config' = MergedOutput(config_override')
  /\ file_config' = MergedFile(config_override')
  /\ logging_config' = EffectiveLogging(config_override')
  /\ touched' = touched \cup {LOGGING_CONFIG.log_file, output_config'.output_directory}
  /\ IF ~DOCLING_AVAILABLE
     THEN Exit(1, "ImportError") /\ UNCHANGED converter
     ELSE /\ converter' = SetupConverter(processing_config')
          /\ mpc' = "process"
          /\ UNCHANGED <<exit_code, exit_reason>>
  /\ UNCHANGED <<DOCLING_AVAILABLE, argv>>
  /\ UNCHANGED <<callVars, buildVars>>

\* line 432 and __init__, lines 40-63: the constructor raises ImportError
\* before anything else when the engine is missing; else it merges the
\* options, opens the log file, creates the output directory (which may
\* fail) and builds the converter
MainConstruct ==
  /\ mpc = "construct"
  /\ IF ~DOCLING_AVAILABLE
     THEN /\ Exit(1, "ImportError")
          /\ UNCHANGED <<cfgVars, touched>>
     ELSE /\ config_override' = CliOverride(argv.flags)
          /\ processing_config' = MergedProcessing(config_override')
          /\ output_config' = MergedOutput(config_override')
          /\ file_config' = MergedFile(config_override')
          /\ logging_config' = EffectiveLogging(config_override')
          /\ \E mkdir_ok \in BOOLEAN :
               IF mkdir_ok
               THEN /\ touched' = touched \cup
                         (IF LOGGING_CONFIG.save_logs THEN {LOGGING_CONFIG.log_file} ELSE {})
                         \cup {output_config'.output_directory}
                    /\ converter' = SetupConverter(processing_config')
                    /\ mpc' = "process"
                    /\ UNCHANGED <<exit_code, exit_reason>>
               ELSE /\ touched' = touched \cup
                         (IF LOGGING_CONFIG.save_logs THEN {LOGGING_CONFIG.log_file} ELSE {})
                    /\ UNCHANGED converter
                    /\ Exit(1, "unexpected")
  /\ UNCHANGED <<DOCLING_AVAILABLE, argv>>
  /\ UNCHANGED <<callVars, buildVars>>

\* line 435: the one process_pdf call of main(), on the path of sys.argv[1]
MainProcess ==
  /\ mpc = "process"
  /\ calls = 0
  /\ Validate
  /\ pdf_file' = argv.file

\* lines 437-458: the exit status after process_pdf has returned
MainExit ==
  /\ mpc = "process"
  /\ pc = "done"
  /\ Exit(ExitCodeOf(result), IF Truthy(result) THEN "completed" ELSE "failed")
  /\ UNCHANGED <<DOCLING_AVAILABLE, argv, touched>>
  /\ UNCHANGED <<cfgVars, callVars, buildVars>>

NextMain ==
  \/ MainArgs
  \/ MainConstruct
  \/ MainProcess
  \/ Convert
  \/ Build
  \/ SaveJson
  \/ SaveMarkdown
  \/ SaveHtml
  \/ SaveText
  \/ SaveSummary
  \/ Return
  \/ MainExit

SpecMain == InitMain /\ [][NextMain]_vars

\* -------------------------------------------- _extract_comprehensive_data
\* mutant: table_id is the enumerate index itself
TableSummaryFromZero(i, table) ==
  IF table.export_ok
  THEN [table_id |-> i, rows |-> IntVal(table.shape[1]),
        columns |-> IntVal(table.shape[2]), has_headers |-> BoolVal(TRUE)]
  ELSE [table_id |-> i, rows |-> StrVal("unknown"),
        columns |-> StrVal("unknown"), has_headers |-> StrVal("unknown")]

\* lines 260-274: the entry of table number i (from 0) of the document; the
\* except branch is taken when export_to_dataframe() raises
TableSummary(i, table) ==
  IF table.export_ok
  THEN [table_id |-> i + 1, rows |-> IntVal(table.shape[1]),
        columns |-> IntVal(table.shape[2]), has_headers |-> BoolVal(TRUE)]
  ELSE [table_id |-> i + 1, rows |-> StrVal("unknown"),
        columns |-> StrVal("unknown"), has_headers |-> StrVal("unknown")]

\* lines 277-282: summary['images']
ImageSummaries(n) == [i \in 1..n |-> [image_id |-> i, type |-> "picture"]]

InitBuild ==
  /\ bdoc \in BuildDocuments
  /\ bpc = "extract"
  /\ bi = 0
  /\ bstats = EmptyDict
  /\ btables = <<>>
  /\ bresult = None
  /\ config_override = EmptyDict
  /\ processing_config = MergedProcessing(config_override)
  /\ output_config = MergedOutput(config_override)
  /\ file_config = MergedFile(config_override)
  /\ logging_config = EffectiveLogging(config_override)
  /\ converter = SetupConverter(processing_config)
  /\ pc = "converted"
  /\ calls = 1
  /\ pdf_file \in {f \in ExistingFiles : _validate_input_file(f, file_config) = "OK"
                                         /\ f.suffix = ext_pdf /\ f.st_size < BytesPerMB}
  /\ convert_invoked = TRUE
  /\ status = "SUCCESS"
  /\ document = NoDocument
  /\ extracted_data = None
  /\ attempted = {}
  /\ written = {}
  /\ exc = "none"
  /\ last_error = "none"
  /\ result = None
  /\ DOCLING_AVAILABLE = TRUE
  /\ argv = NoArgv
  /\ mpc = "library"
  /\ exit_code = 0
  /\ exit_reason = "none"
  /\ touched = {LOGGING_CONFIG.log_file, OUTPUT_CONFIG.output_directory}

\* lines 213-237 and 251-256: the reads made outside any try block; one that
\* raises ends the function with its exception
ExtractData ==
  /\ bpc = "extract"
  /\ IF bdoc.failing_reads # {}
     THEN /\ bpc' = "raised"
          /\ UNCHANGED bstats
     ELSE /\ bstats' = [num_tables |-> Len(bdoc.tables),
                        num_pictures |-> bdoc.num_pictures]
          /\ bpc' = "tables"
  /\ UNCHANGED <<bdoc, bi, btables, bresult>>
  /\ UNCHANGED <<cfgVars, callVars, mainVars>>

\* lines 259-274: one iteration of the loop over document.tables
SummariseTable ==
  /\ bpc = "tables"
  /\ bi < Len(bdoc.tables)
  /\ btables' = Append(btables, TableSummary(bi, bdoc.tables[bi + 1]))
  /\ bi' = bi + 1
  /\ UNCHANGED <<bpc, bdoc, bstats, bresult>>
  /\ UNCHANGED <<cfgVars, callVars, mainVars>>

\* lines 276-284 and 239-247: the images, then the payload is returned
BuildReturn ==
  /\ bpc = "tables"
  /\ bi >= Len(bdoc.tables)
  /\ bresult' = [kind |-> "payload",
                 statistics |-> bstats,
                 extraction_summary |->
                   [tables |-> btables, images |-> ImageSummaries(bdoc.num_pictures)]]
  /\ bpc' = "returned"
  /\ UNCHANGED <<bdoc, bi, bstats, btables>>
  /\ UNCHANGED <<cfgVars, callVars, mainVars>>

NextBuild ==
  \/ ExtractData
  \/ SummariseTable
  \/ BuildReturn

SpecBuild == InitBuild /\ [][NextBuild]_vars

\* ================================================================ claims
\* the formats output_config enables, as artifacts
EnabledArtifacts == {ArtifactOf(flag) : flag \in {k \in SaveFlags : output_config[k]}}

ValidationErrors == {"NotFound", "UnsupportedType", "TooLarge"}

\* a call was started and its validation has run
Validated == calls > 0

\* the three checks of the validation, each on its own
InputInvalid ==
  \/ ~pdf_file.exists
  \/ ~SuffixSupported(pdf_file, file_config)
  \/ pdf_file.st_size > file_config.max_file_size_mb * BytesPerMB

\* C1: whenever the engine's convert has returned a status other than
\* SUCCESS, the call is over with the failure result None, and no artifact
\* was written or even attempted in that call.
C1_NonSuccessIsFailure ==
  status \notin {"none", "SUCCESS"} =>
    /\ pc = "done"
    /\ result = None
    /\ written = {}
    /\ attempted = {}

C1_Witness ==
  /\ pc = "done"
  /\ convert_invoked
  /\ status = "PARTIAL_SUCCESS"
  /\ result = None
  /\ EnabledArtifacts # {}

\* C2: a call whose input is missing, has an unsupported extension or is too
\* large never invokes the engine's convert, writes no artifact and returns
\* the failure result None.
C2_InvalidInputStopsCall ==
  (Validated /\ InputInvalid) =>
    /\ pc = "done"
    /\ ~convert_invoked
    /\ written = {}
    /\ attempted = {}
    /\ result = None

C2_Witness ==
  /\ pc = "done"
  /\ pdf_file.exists
  /\ SuffixSupported(pdf_file, file_config)
  /\ pdf_file.st_size > file_config.max_file_size_mb * BytesPerMB
  /\ ~convert_invoked

\* C3: an exception raised by the conversion, the payload building or a write
\* never leaves process_pdf: the call ends with the failure result None, and
\* every ended call has returned either None or a payload.
C3_FailuresAreCaught ==
  /\ pc # "raised"
  /\ exc # "none" => (pc = "done" /\ result = None /\ last_error = "ProcessingFailed")
  /\ pc = "done" => (result = None \/ result.kind = "payload")

C3_Witness ==
  /\ pc = "done"
  /\ exc = "RuntimeError"
  /\ convert_invoked
  /\ result = None

\* C4 (as claimed): when the writer ran, the write of every enabled format
\* was attempted, whether or not the write of another format failed.
C4_EveryEnabledFormatAttempted ==
  (pc = "done" /\ attempted # {}) => EnabledArtifacts \subseteq attempted

\* C5 (as claimed): after a call whose conversion succeeded and in which
\* nothing raised, the artifacts written are exactly those of the enabled
\* flags among the five save flags.
C5_WrittenExactlyEnabled ==
  (pc = "done" /\ status = "SUCCESS" /\ exc = "none") => written = EnabledArtifacts

\* C6: the validation checks existence, then extension, then size, and stops
\* at the first failure: a missing path is not-found whatever its extension,
\* an existing file with an unsupported extension is unsupported-type
\* whatever its size, too-large is reported only for an existing file with a
\* supported extension, and the validation passes only when all three pass.
C6_ValidationOrder ==
  Validated =>
    /\ ~pdf_file.exists => last_error = "NotFound"
    /\ (pdf_file.exists /\ ~SuffixSupported(pdf_file, file_config))
         => last_error = "UnsupportedType"
    /\ last_error = "TooLarge"
         => /\ pdf_file.exists
            /\ SuffixSupported(pdf_file, file_config)
            /\ pdf_file.st_size > file_config.max_file_size_mb * BytesPerMB
    /\ last_error \notin ValidationErrors => ~InputInvalid

C6_Witness ==
  /\ pc = "done"
  /\ pdf_file.exists
  /\ ~SuffixSupported(pdf_file, file_config)
  /\ pdf_file.st_size > file_config.max_file_size_mb * BytesPerMB
  /\ last_error = "UnsupportedType"

\* C7: for an existing file with a supported extension, a size of exactly
\* max_file_size_mb * 1024 * 1024 bytes passes the size check and a size one
\* byte larger fails it as too large.
C7_SizeBoundary ==
  (Validated /\ pdf_file.exists /\ SuffixSupported(pdf_file, file_config)) =>
    /\ pdf_file.st_size = file_config.max_file_size_mb * 1024 * 1024
         => last_error \notin ValidationErrors
    /\ pdf_file.st_size = file_config.max_file_size_mb * 1024 * 1024 + 1
         => last_error = "TooLarge"

C7_Witness ==
  /\ pc = "validated"
  /\ pdf_file.exists
  /\ pdf_file.st_size = file_config.max_file_size_mb * 1024 * 1024

\* C8 (as claimed): an existing file passes the extension check iff its
\* extension equals some configured extension ignoring letter case.
C8_ExtensionCaseInsensitive ==
  (Validated /\ pdf_file.exists) =>
    (last_error # "UnsupportedType"
       <=> \E e \in Range(file_config.supported_extensions) :
             Lower(e) = Lower(pdf_file.suffix))

\* the effective option groups of the processor, by group name
EffectiveConfig ==
  [processing |-> processing_config, output |-> output_config,
   file |-> file_config, logging |-> logging_config]

DefaultConfig ==
  [processing |-> PROCESSING_CONFIG, output |-> OUTPUT_CONFIG,
   file |-> FILE_CONFIG, logging |-> LOGGING_CONFIG]

\* C9 (as claimed): in each of the four groups, a key the override names has
\* the override's value in the effective configuration and every other key
\* has its default.
C9_ShallowMergeFourGroups ==
  \A g \in DOMAIN DefaultConfig :
    \A k \in DOMAIN DefaultConfig[g] :
      EffectiveConfig[g][k] =
        IF k \in DOMAIN Get(config_override, g)
        THEN Get(config_override, g)[k]
        ELSE DefaultConfig[g][k]

\* C10: no step of any process_pdf call changes the processing, output or
\* file options or the converter handle, and a call that ends has returned
\* None or the payload of its own input under the constructed options.
C10_ConfigurationFixed ==
  [][/\ UNCHANGED <<processing_config, output_config, file_config, converter>>
     /\ pc' = "done" =>
          result' \in {None,
                       _extract_comprehensive_data(document', pdf_file',
                                                   MergedProcessing(config_override))}]_vars

C10_Witness ==
  /\ calls = MaxCalls
  /\ pc = "done"
  /\ result # None
  /\ written # {}

\* the save flags in the order _save_all_outputs goes through them
SaveOrder == <<"save_json", "save_markdown", "save_html", "save_text", "save_summary">>

\* C16: artifacts are written only after the engine returned SUCCESS and the
\* payload was built, and in the order JSON, Markdown, HTML, text, report:
\* at every point of a call, a written artifact of an enabled format has the
\* artifacts of all enabled earlier formats written too; and when the call
\* returns a payload, every enabled artifact among json, md, html and txt
\* has been written.
C16_WriteOrder ==
  /\ written # {} => (status = "SUCCESS" /\ extracted_data # None)
  /\ \A j \in DOMAIN SaveOrder : \A i \in 1..(j - 1) :
       (/\ output_config[SaveOrder[i]]
        /\ output_config[SaveOrder[j]]
        /\ ArtifactOf(SaveOrder[j]) \in written)
         => ArtifactOf(SaveOrder[i]) \in written
  /\ (pc = "done" /\ result # None) =>
       \A i \in 1..4 :
         output_config[SaveOrder[i]] => ArtifactOf(SaveOrder[i]) \in written

C16_Witness ==
  /\ pc = "done"
  /\ exc = "OSError"
  /\ result = None
  /\ ArtifactOf("save_json") \in written
  /\ ArtifactOf("save_html") \in attempted
  /\ ArtifactOf("save_html") \notin written
  /\ output_config.save_text

\* the constructor has merged the options main() passed
Constructed == mpc # "library" /\ DOMAIN processing_config # {}

\* the processing options a present option names
ForcedOff(k) ==
  \/ k = "enable_ocr" /\ "--no-ocr" \in argv.flags
  \/ k = "enable_tables" /\ "--no-tables" \in argv.flags
  \/ k \in SimpleKeys /\ "--simple" \in argv.flags

\* C11: for every subset of {--no-ocr, --no-tables, --simple}, --simple sets
\* the four keys it names to false, --no-ocr only enable_ocr, --no-tables only
\* enable_tables, each independently of the others, and every processing
\* option no present option names keeps its default.
C11_CliFlags ==
  Constructed =>
    /\ DOMAIN processing_config = DOMAIN PROCESSING_CONFIG
    /\ \A k \in DOMAIN PROCESSING_CONFIG :
         processing_config[k] = IF ForcedOff(k) THEN FALSE ELSE PROCESSING_CONFIG[k]

C11_Witness ==
  /\ Constructed
  /\ argv.flags = CliFlags
  /\ ~processing_config.enable_ocr
  /\ ~processing_config.enable_tables
  /\ ~processing_config.generate_picture_images
  /\ processing_config.generate_page_images

\* C12: the process exits 0 exactly when the processing succeeded, and 1 for
\* a missing argument, a missing, unsupported or oversized input, a
\* conversion that failed (non-SUCCESS status or a caught error) and a
\* missing engine.
C12_ExitCodes ==
  mpc = "exited" =>
    /\ exit_code \in {0, 1}
    /\ exit_code = 0 <=>
         (pc = "done" /\ status = "SUCCESS" /\ exc = "none" /\ result # None)
    /\ ~argv.given => exit_code = 1
    /\ ~argv.file.exists => exit_code = 1
    /\ (Constructed /\ InputInvalid) => exit_code = 1
    /\ status \notin {"none", "SUCCESS"} => exit_code = 1
    /\ exc # "none" => exit_code = 1
    /\ ~DOCLING_AVAILABLE => exit_code = 1

C12_Witness ==
  /\ mpc = "exited"
  /\ exit_code = 1
  /\ exit_reason = "failed"
  /\ status = "SUCCESS"
  /\ exc = "OSError"

\* C13: when the engine cannot be imported, nothing is touched at any point
\* of the run -- no output directory, no log file, no artifact, no
\* validation, no conversion -- and the run exits non-zero.
C13_UnavailableTouchesNothing ==
  ~DOCLING_AVAILABLE =>
    /\ touched = {}
    /\ written = {}
    /\ attempted = {}
    /\ calls = 0
    /\ ~convert_invoked
    /\ mpc = "exited" => exit_code # 0

C13_Witness ==
  /\ ~DOCLING_AVAILABLE
  /\ mpc = "exited"
  /\ exit_reason = "ImportError"
  /\ argv.file.exists

\* C14: for a document with N tables of which any subset raises on export,
\* the payload has statistics.num_tables = N and N table entries in document
\* order with table_id 1..N; the entry of a table whose export works has its
\* exact row and column counts and has_headers = true, the entry of a table
\* whose export raises has "unknown" in all three; and a table whose export
\* raises never makes the build fail.
C14_TableSummaries ==
  /\ bpc = "raised" => bdoc.failing_reads # {}
  /\ bpc = "returned" =>
       /\ bresult.statistics.num_tables = Len(bdoc.tables)
       /\ Len(bresult.extraction_summary.tables) = Len(bdoc.tables)
       /\ \A n \in 1..Len(bdoc.tables) :
            LET entry == bresult.extraction_summary.tables[n]
                table == bdoc.tables[n]
            IN  /\ entry.table_id = n
                /\ table.export_ok =>
                     /\ entry.rows = IntVal(table.shape[1])
                     /\ entry.columns = IntVal(table.shape[2])
                     /\ entry.has_headers = BoolVal(TRUE)
                /\ ~table.export_ok =>
                     /\ entry.rows = StrVal("unknown")
                     /\ entry.columns = StrVal("unknown")
                     /\ entry.has_headers = StrVal("unknown")

C14_Witness ==
  /\ bpc = "returned"
  /\ Len(bdoc.tables) = 3
  /\ bdoc.num_pictures = 2
  /\ bdoc.tables[1].export_ok
  /\ ~bdoc.tables[2].export_ok
  /\ bdoc.tables[3].export_ok
  /\ bresult.extraction_summary.tables[2].rows = StrVal("unknown")

\* C15 (as claimed): the payload building never fails, whichever reads of the
\* document raise.
C15_BuildNeverFails ==
  /\ bpc # "raised"
  /\ bpc \notin {"extract", "tables"} => bresult # None

====
